---- MODULE Spec2Model ----
(***************************************************************************)
(* A state-machine model of angle.py (AnglE): the text-pair tokenization   *)
(* adapter, the batch collator, the pooling adapter, the training step and *)
(* the composite loss.  Every component has its own specification over the *)
(* shared variables; a component's specification leaves the variables of   *)
(* the other components at their initial values.                           *)
(*                                                                         *)
(* The HuggingFace tokenizer and the backbone are external collaborators:  *)
(* what they return is chosen nondeterministically within their contract   *)
(* (a truncating call returns at most max_length tokens, the attention     *)
(* mask is as long as the token sequence).                                 *)
(***************************************************************************)
EXTENDS Integers, Sequences, FiniteSets, TLC

VARIABLES
    max_length,            \* AngleDataTokenizer.max_length
    prompt_template_tok,   \* AngleDataTokenizer.prompt_template_tok (configured, input_ids)
    data,                  \* the PairRecord dict handed to AngleDataTokenizer.__call__
    tok,                   \* what AngleDataTokenizer.__call__ returned (or that it raised)
    tok_obs,               \* what happened inside the call: raw tokenizations, repair outcome
    compute_similar_matrix,\* AngleDataCollator.compute_similar_matrix
    features,              \* the list of TokenizedPair dicts handed to AngleDataCollator.__call__
    batch,                 \* what AngleDataCollator.__call__ returned (or that it raised)
    loss_fct,              \* the AngleLoss object: w1, w2, w3
    loss_in,               \* the arguments of AngleLoss.__call__: y_true, y_pred, similar_matrix
    loss_out,              \* what AngleLoss.__call__ computed: the terms invoked and the sum
    pooler,                \* the Pooler object: is_llm, pooling_strategy, the model's pad token
    inputs,                \* the dict `inputs` of compute_loss (X in evaluate, tok in encode)
    locals,                \* the locals labels and similar_matrix of compute_loss
    pc,                    \* where compute_loss (or evaluate, encode) stands
    steps,                 \* the statements executed so far in the current call
    backbone_kwargs,       \* the keyword sets the backbone was called with in the current call
    outputs,               \* what Pooler.__call__ returned (or that it raised)
    loss_call              \* the arguments compute_loss passed to self.loss_fct

tok_vars == <<max_length, prompt_template_tok, data, tok, tok_obs>>
coll_vars == <<compute_similar_matrix, features, batch>>
loss_vars == <<loss_fct, loss_in, loss_out>>

step_vars == <<pooler, inputs, locals, pc, steps, backbone_kwargs, outputs, loss_call>>

vars == <<tok_vars, coll_vars, loss_vars, step_vars>>

----------------------------------------------------------------------------
(* Bounds and sample domains *)

\* largest max_length a tokenizer is configured with
MaxLen == 3
\* largest number of tokens of a raw text (before any truncation)
MaxText == 2
\* largest total token length of the extra placeholders of a record
MaxExtra == 1
\* token ids the external tokenizer may emit
Vocab == {1, 2}
\* labels of a PairRecord
Labels == {0, 1}
\* largest number of records in one batch
MaxRecords == 2
\* token sequences of one text of a record, as the collator receives them
RowSamples == {<<>>, <<1>>, <<2>>, <<1, 2>>}
\* largest number of pairs (two rows each) in the batch of one loss call
MaxPairs == 2
\* pooled embeddings of a row: two components, one of them zero, so that
\* the L2 norm is an integer
EmbeddingSamples == {<<1, 0>>, <<0, 2>>, <<-3, 0>>}
\* labels of the pairs of a loss call
LossLabels == {0, 1, 2}
\* loss weights w1, w2, w3
WeightSamples == {-1, 0, 1}
\* largest number of records in the batch of one training or evaluation step
MaxStepRecords == 1
\* largest number of sentences in one call of encode
MaxSentences == 2
\* pooling_strategy values: the five the Pooler knows, the default None and
\* a name it does not know
StrategySamples == {"cls", "cls_avg", "last", "avg", "max", "None", "mean"}

----------------------------------------------------------------------------
(* Python list helpers *)

Min(a, b) == IF a < b THEN a ELSE b
Max(a, b) == IF a > b THEN a ELSE b

Range(s) == {s[i] : i \in 1..Len(s)}

Last(s) == s[Len(s)]

\* all sequences over S of length 0..n
SeqsUpTo(S, n) == UNION {[1..k -> S] : k \in 0..n}

\* [x] * n
Repeat(x, n) == [i \in 1..n |-> x]

\* list.index(x), 0-based; only used when x is in the list
PyIndex(s, x) == (CHOOSE i \in 1..Len(s) : s[i] = x /\ \A j \in 1..(i - 1) : s[j] # x) - 1

\* s[:n] with Python's meaning of a negative n
PySliceTo(s, n) ==
    LET stop == IF n >= 0 THEN Min(n, Len(s)) ELSE Max(Len(s) + n, 0)
    IN  SubSeq(s, 1, stop)

\* s[k:] for k >= 0
PySliceFrom(s, k) == SubSeq(s, Min(k, Len(s)) + 1, Len(s))

----------------------------------------------------------------------------
(* AngleDataTokenizer *)

\* the loop of fix_bad_data: walks token_ids backwards from position idx
\* (1-based), remembering the template index of the token seen last, and
\* stops at the first token that the template does not contain
RECURSIVE ScanBack(_, _, _, _)
ScanBack(token_ids, prompt_ids, idx, bad_index) ==
    IF idx < 1 THEN bad_index
    ELSE IF token_ids[idx] \in Range(prompt_ids)
         THEN ScanBack(token_ids, prompt_ids, idx - 1, PyIndex(prompt_ids, token_ids[idx]))
         ELSE bad_index

\* a fix_bad_data whose loop has no try/except: list.index raises ValueError
\* on the first token (scanning backwards) that the template does not contain
FixBadDataUncaught(token_ids, prompt_ids) ==
    IF \E i \in 1..Len(token_ids) : token_ids[i] \notin Range(prompt_ids)
    THEN [exc |-> "ValueError", value |-> token_ids]
    ELSE LET bad_index == ScanBack(token_ids, prompt_ids, Len(token_ids), -1)
             to_fix_ids == PySliceFrom(prompt_ids, bad_index)
         IN  [exc |-> "none",
              value |-> IF bad_index = -1 THEN token_ids
                        ELSE PySliceTo(token_ids, Len(token_ids) - Len(to_fix_ids)) \o to_fix_ids]

\* AngleDataTokenizer.fix_bad_data: the result and the exception that
\* escapes it (none: the ValueError of list.index is caught in the loop)
fix_bad_data(token_ids, prompt_ids) ==
    LET bad_index == ScanBack(token_ids, prompt_ids, Len(token_ids), -1)
        to_fix_ids == PySliceFrom(prompt_ids, bad_index)
    IN  [exc |-> "none",
         value |-> IF bad_index = -1 THEN token_ids
                   ELSE PySliceTo(token_ids, Len(token_ids) - Len(to_fix_ids)) \o to_fix_ids]

\* lines 227-236 (text1) and 237-246 (text2): the validation guard and the
\* repair of one tokenized text.  input_ids is reassigned to the output of
\* fix_bad_data before the assertions run, and stays so when they fail.
\*   exc      the exception that escapes ("none" when the block completes)
\*   bad      the final token differed from the template's final token
\*   fixed    both assertions held after the repair
TemplateGuard(input_ids, attention_mask, prompt_ids) ==
    IF input_ids = <<>> \/ prompt_ids = <<>>
    THEN [exc |-> "IndexError", input_ids |-> input_ids, bad |-> FALSE, fixed |-> FALSE]
    ELSE IF Last(input_ids) = Last(prompt_ids)
    THEN [exc |-> "none", input_ids |-> input_ids, bad |-> FALSE, fixed |-> FALSE]
    ELSE LET r == fix_bad_data(input_ids, prompt_ids)
             new_ids == r.value
         IN  IF r.exc # "none"
             THEN [exc |-> r.exc, input_ids |-> input_ids, bad |-> TRUE, fixed |-> FALSE]
             ELSE IF Len(new_ids) # Len(attention_mask)
             THEN [exc |-> "none", input_ids |-> new_ids, bad |-> TRUE, fixed |-> FALSE]
             ELSE IF new_ids = <<>>
             THEN [exc |-> "IndexError", input_ids |-> new_ids, bad |-> TRUE, fixed |-> FALSE]
             ELSE [exc |-> "none", input_ids |-> new_ids, bad |-> TRUE,
                   fixed |-> Last(new_ids) = Last(prompt_ids)]

\* a raw text of a record: all the model keeps of a string is how many
\* tokens it has without special tokens
RawText(n) == [form |-> "raw", ntok |-> n]

\* tokenizer.decode of n tokens, substituted into the prompt template
\* (lines 215-216, 221-222)
PromptText(n) == [form |-> "prompt", ntok |-> n]

\* max_length of the first, truncating tokenization (lines 212, 218)
TextBudget(extra_length) ==
    max_length - Len(prompt_template_tok.input_ids) - extra_length

\* the first tokenization of a text, truncation=True, add_special_tokens=False:
\* the number of tokens that are kept
TruncatedLen(text, budget) == Min(text.ntok, budget)

NoTok == [status |-> "idle", input_ids |-> <<>>, attention_mask |-> <<>>,
          labels |-> <<>>, seperate_ids |-> <<>>]

NoObs == [bad1 |-> FALSE, bad2 |-> FALSE, fixed1 |-> FALSE, fixed2 |-> FALSE,
          raw1 |-> <<>>, raw2 |-> <<>>, out1 |-> <<>>, out2 |-> <<>>,
          pre1 |-> 0, pre2 |-> 0, budget |-> 0]

NoData == [text1 |-> RawText(0), text2 |-> RawText(0), label |-> 0, extras |-> 0,
           state |-> "none"]

PairRecords ==
    [text1 : {RawText(n) : n \in 0..MaxText}, text2 : {RawText(n) : n \in 0..MaxText},
     label : Labels, extras : 0..MaxExtra, state : {"read"}]

\* the dataset hands the next PairRecord to the tokenization adapter
LoadRecord ==
    /\ data.state \in {"none", "done"}
    /\ \E d \in PairRecords :
          /\ prompt_template_tok.configured => TextBudget(d.extras) >= 0
          /\ data' = d
    /\ tok' = NoTok
    /\ tok_obs' = NoObs
    /\ UNCHANGED <<max_length, prompt_template_tok, coll_vars, loss_vars, step_vars>>

\* AngleDataTokenizer.__call__ on the record in data; ids1 and ids2 are what
\* the tokenizer returns for the two texts at lines 224-225
TokenizerCall(ids1, ids2) ==
    LET configured == prompt_template_tok.configured
        prompt_ids == prompt_template_tok.input_ids
        extra_length == data.extras
        budget == TextBudget(extra_length)
        pre1 == TruncatedLen(data.text1, budget)
        pre2 == TruncatedLen(data.text2, budget)
        am1 == Repeat(1, Len(ids1))
        am2 == Repeat(1, Len(ids2))
        g1 == IF configured THEN TemplateGuard(ids1, am1, prompt_ids)
              ELSE [exc |-> "none", input_ids |-> ids1, bad |-> FALSE, fixed |-> FALSE]
        g2 == IF configured /\ g1.exc = "none" THEN TemplateGuard(ids2, am2, prompt_ids)
              ELSE [exc |-> "none", input_ids |-> ids2, bad |-> FALSE, fixed |-> FALSE]
        exc == IF g1.exc # "none" THEN g1.exc ELSE g2.exc
    IN  /\ data' = [data EXCEPT
                      !.text1 = IF configured THEN PromptText(pre1) ELSE @,
                      !.text2 = IF configured THEN PromptText(pre2) ELSE @,
                      !.state = "done"]
        /\ tok_obs' = [bad1 |-> g1.bad, bad2 |-> g2.bad,
                       fixed1 |-> g1.fixed, fixed2 |-> g2.fixed,
                       raw1 |-> ids1, raw2 |-> ids2,
                       out1 |-> g1.input_ids, out2 |-> g2.input_ids,
                       pre1 |-> IF configured THEN pre1 ELSE 0,
                       pre2 |-> IF configured THEN pre2 ELSE 0,
                       budget |-> IF configured THEN budget ELSE 0]
        /\ tok' = IF exc # "none"
                  THEN [NoTok EXCEPT !.status = exc]
                  ELSE [status |-> "returned",
                        input_ids |-> g1.input_ids \o g2.input_ids,
                        attention_mask |-> am1 \o am2,
                        labels |-> <<data.label>>,
                        seperate_ids |-> Repeat(0, Len(g1.input_ids)) \o
                                         Repeat(1, Len(g2.input_ids))]
        /\ UNCHANGED <<max_length, prompt_template_tok, coll_vars, loss_vars, step_vars>>

\* what tokenizer(text, max_length=max_length, truncation=True) may return at
\* lines 224-225: at most max_length tokens; a text that contains the
\* template has at least one token when the template alone has one
Tokenizations ==
    IF prompt_template_tok.configured /\ prompt_template_tok.input_ids # <<>>
    THEN SeqsUpTo(Vocab, max_length) \ {<<>>}
    ELSE SeqsUpTo(Vocab, max_length)

Tokenize ==
    /\ data.state = "read"
    /\ \E ids1, ids2 \in Tokenizations : TokenizerCall(ids1, ids2)

TokNext == LoadRecord \/ Tokenize

----------------------------------------------------------------------------
(* AngleDataCollator *)

\* tokenizer.pad_token_id, the value tokenizer.pad fills with
pad_token_id == 0

\* a TokenizedPair as AngleDataTokenizer.__call__ builds it (lines 247-252)
\* from the token sequences a and b of the two texts; attention_mask (and
\* token_type_ids) keep the length the tokenizer returned, which is `stale`
\* shorter than input_ids after a repair that failed
Feature(a, b, stale, label, has_tt) ==
    [input_ids |-> a \o b,
     attention_mask |-> Repeat(1, Len(a) + Len(b) - stale),
     seperate_ids |-> Repeat(0, Len(a)) \o Repeat(1, Len(b)),
     labels |-> <<label>>,
     has_token_type_ids |-> has_tt,
     token_type_ids |-> IF has_tt THEN Repeat(0, Len(a) + Len(b) - stale) ELSE <<>>]

\* the features of a call: TokenizedPairs, and records of another origin
\* whose seperate_ids or token_type_ids alone are one short
FeatureSamples(has_tt) ==
    {Feature(a, b, stale, label, has_tt) :
        a \in RowSamples, b \in RowSamples, stale \in 0..1, label \in Labels}
    \cup {[Feature(a, b, 0, 1, has_tt) EXCEPT !.seperate_ids = Tail(@)] :
            a \in RowSamples \ {<<>>}, b \in RowSamples \ {<<>>}}
    \cup {[Feature(a, b, 0, 1, has_tt) EXCEPT !.token_type_ids = Tail(@)] :
            a \in IF has_tt THEN RowSamples \ {<<>>} ELSE {},
            b \in RowSamples \ {<<>>}}

\* an off-by-one split index
FirstOneIdxNext(seperate_ids) == PyIndex(seperate_ids, 1) + 1

\* seperate_ids.index(1), line 279
first_one_idx(seperate_ids) == PyIndex(seperate_ids, 1)

\* a key that only keeps the length of the row
RowKeyLength(input_ids) == <<Len(input_ids)>>

\* tuple(new_feature['input_ids']), the key of batch_text_set (lines 287, 296)
RowKey(input_ids) == input_ids

\* batch_text_set[key].append(pos) on a defaultdict(list)
AppendPos(batch_text_set, key, pos) ==
    IF key \in DOMAIN batch_text_set
    THEN [batch_text_set EXCEPT ![key] = Append(@, pos)]
    ELSE (key :> <<pos>>) @@ batch_text_set

\* a loop body without the assertion of line 273
LoopBodyNoAssert(feature, i, acc) ==
    IF feature.has_token_type_ids
       /\ Len(feature.token_type_ids) # Len(feature.input_ids)
    THEN [acc EXCEPT !.exc = "AssertionError"]
    ELSE IF 1 \notin Range(feature.seperate_ids)
    THEN [acc EXCEPT !.exc = "ValueError"]
    ELSE LET idx == first_one_idx(feature.seperate_ids)
             row1 == [input_ids |-> PySliceTo(feature.input_ids, idx),
                      attention_mask |-> PySliceTo(feature.attention_mask, idx),
                      token_type_ids |-> PySliceTo(feature.token_type_ids, idx),
                      labels |-> feature.labels]
             row2 == [input_ids |-> PySliceFrom(feature.input_ids, idx),
                      attention_mask |-> PySliceFrom(feature.attention_mask, idx),
                      token_type_ids |-> PySliceFrom(feature.token_type_ids, idx),
                      labels |-> feature.labels]
             set1 == AppendPos(acc.batch_text_set, RowKey(row1.input_ids), 2 * (i - 1))
             set2 == AppendPos(set1, RowKey(row2.input_ids), 2 * (i - 1) + 1)
         IN  [exc |-> "none",
              new_features |-> acc.new_features \o <<row1, row2>>,
              batch_text_set |-> set2,
              has_token_type_ids |-> feature.has_token_type_ids]

\* the body of the loop of lines 269-296 for the i-th feature (i from 1):
\* the exception it raises, or the two rows it appends
LoopBody(feature, i, acc) ==
    IF ~(Len(feature.seperate_ids) = Len(feature.input_ids)
         /\ Len(feature.input_ids) = Len(feature.attention_mask))
    THEN [acc EXCEPT !.exc = "AssertionError"]
    ELSE IF feature.has_token_type_ids
            /\ Len(feature.token_type_ids) # Len(feature.input_ids)
    THEN [acc EXCEPT !.exc = "AssertionError"]
    ELSE IF 1 \notin Range(feature.seperate_ids)
    THEN [acc EXCEPT !.exc = "ValueError"]
    ELSE LET idx == first_one_idx(feature.seperate_ids)
             row1 == [input_ids |-> PySliceTo(feature.input_ids, idx),
                      attention_mask |-> PySliceTo(feature.attention_mask, idx),
                      token_type_ids |-> PySliceTo(feature.token_type_ids, idx),
                      labels |-> feature.labels]
             row2 == [input_ids |-> PySliceFrom(feature.input_ids, idx),
                      attention_mask |-> PySliceFrom(feature.attention_mask, idx),
                      token_type_ids |-> PySliceFrom(feature.token_type_ids, idx),
                      labels |-> feature.labels]
             set1 == AppendPos(acc.batch_text_set, RowKey(row1.input_ids), 2 * (i - 1))
             set2 == AppendPos(set1, RowKey(row2.input_ids), 2 * (i - 1) + 1)
         IN  [exc |-> "none",
              new_features |-> acc.new_features \o <<row1, row2>>,
              batch_text_set |-> set2,
              has_token_type_ids |-> feature.has_token_type_ids]

\* the loop of lines 269-296 from the i-th feature on; an exception ends it
RECURSIVE CollateLoop(_, _, _)
CollateLoop(fs, i, acc) ==
    IF i > Len(fs) \/ acc.exc # "none" THEN acc
    ELSE CollateLoop(fs, i + 1, LoopBody(fs[i], i, acc))

\* the loops of lines 300-306 without the test of lines 304-305
SimilarEntryNoSkip(batch_text_set, i, j) ==
    IF \E key \in DOMAIN batch_text_set :
           i \in Range(batch_text_set[key]) /\ j \in Range(batch_text_set[key])
    THEN 1 ELSE 0

\* the value lines 300-306 leave in similar_matrix[i, j]
SimilarEntry(batch_text_set, i, j) ==
    IF \E key \in DOMAIN batch_text_set :
           /\ i \in Range(batch_text_set[key])
           /\ j \in Range(batch_text_set[key])
           /\ i # j
    THEN 1 ELSE 0

\* lines 298-306
SimilarMatrix(n, batch_text_set, compute) ==
    [i \in 0..(n - 1) |-> [j \in 0..(n - 1) |->
        IF compute THEN SimilarEntry(batch_text_set, i, j) ELSE 0]]

MaxOver(S) == IF S = {} THEN 0 ELSE CHOOSE m \in S : \A x \in S : x <= m

\* tokenizer.pad({'input_ids': rows}, padding='longest')['input_ids']: every
\* row filled on the right with pad_token_id to the longest row
PadLongest(rows) ==
    LET longest == MaxOver({Len(rows[k]) : k \in 1..Len(rows)})
    IN  [k \in 1..Len(rows) |-> rows[k] \o Repeat(pad_token_id, longest - Len(rows[k]))]

NoBatch == [status |-> "idle", new_features |-> <<>>, input_ids |-> <<>>,
            attention_mask |-> <<>>, token_type_ids |-> <<>>, labels |-> <<>>,
            similar_matrix |-> <<>>, keys |-> {}]

\* AngleDataCollator.__call__(features)
Collator(fs, compute) ==
    LET loop == CollateLoop(fs, 1,
                    [exc |-> "none", new_features |-> <<>>, batch_text_set |-> <<>>,
                     has_token_type_ids |-> fs[1].has_token_type_ids])
        nf == loop.new_features
        n == Len(nf)
    IN  IF loop.exc # "none"
        THEN [NoBatch EXCEPT !.status = loop.exc]
        ELSE [status |-> "done",
              new_features |-> nf,
              input_ids |-> PadLongest([k \in 1..n |-> nf[k].input_ids]),
              attention_mask |-> PadLongest([k \in 1..n |-> nf[k].attention_mask]),
              token_type_ids |-> IF loop.has_token_type_ids
                                 THEN PadLongest([k \in 1..n |-> nf[k].token_type_ids])
                                 ELSE <<>>,
              labels |-> [k \in 1..n |-> nf[k].labels],
              similar_matrix |-> SimilarMatrix(n, loop.batch_text_set, compute),
              keys |-> {"input_ids", "attention_mask", "labels", "similar_matrix"} \cup
                       (IF loop.has_token_type_ids THEN {"token_type_ids"} ELSE {})]

\* one call of the collator on a list of 1..MaxRecords features, all from
\* the same tokenizer (with or without token_type_ids)
Collate ==
    /\ batch.status = "idle"
    /\ \E n \in 1..MaxRecords, has_tt \in BOOLEAN :
         \E fs \in [1..n -> FeatureSamples(has_tt)] :
            /\ features' = fs
            /\ batch' = Collator(fs, compute_similar_matrix)
    /\ UNCHANGED <<compute_similar_matrix, tok_vars, loss_vars, step_vars>>

\* the caller (training or evaluation loop) is done with the batch
ReleaseBatch ==
    /\ batch.status # "idle"
    /\ features' = <<>>
    /\ batch' = NoBatch
    /\ UNCHANGED <<compute_similar_matrix, tok_vars, loss_vars, step_vars>>

CollNext == Collate \/ ReleaseBatch

----------------------------------------------------------------------------
(* The loss functions and AngleLoss *)

\* AngleLoss.__init__ defaults
cosine_tau == 20
ibn_tau == 20
angle_tau == 1

Abs(x) == IF x < 0 THEN -x ELSE x

RECURSIVE SumSeq(_)
SumSeq(s) == IF s = <<>> THEN 0 ELSE Head(s) + SumSeq(Tail(s))

\* the L2 norm of a vector with at most one non-zero component
Norm(v) == SumSeq([k \in 1..Len(v) |-> Abs(v[k])])

\* F.normalize(v, p=2): v / max(norm, eps)
Normalize(v) == IF Norm(v) = 0 THEN v ELSE [k \in 1..Len(v) |-> v[k] \div Norm(v)]

Dot(u, v) == SumSeq([k \in 1..Len(u) |-> u[k] * v[k]])

\* a number x + offset * 1e12: the masks of the losses subtract multiples of
\* 1e12, which the exponential turns into exactly 0
Num(offset, x) == [offset |-> offset, x |-> x]

\* y_true[::2, 0]: the gold score of pair i (from 0) is the label of row 2i
Gold(y_true) == [i \in 0..((Len(y_true) \div 2) - 1) |-> y_true[2 * i + 1][1]]

\* an order matrix that also marks pairs with equal gold scores
OrderMatrixNonStrict(gold) ==
    [i \in DOMAIN gold |-> [j \in DOMAIN gold |-> IF gold[i] <= gold[j] THEN 1 ELSE 0]]

\* (y_true[:, None] < y_true[None, :]).float(), lines 45 and 57
OrderMatrix(gold) ==
    [i \in DOMAIN gold |-> [j \in DOMAIN gold |-> IF gold[i] < gold[j] THEN 1 ELSE 0]]

\* lines 48-51 and 80-83: the pairwise differences of the scores, the mask
\* offset -(1 - y_true) * 1e12, flattened row by row behind an explicit zero
RankingTerms(order, score) ==
    LET n == Cardinality(DOMAIN score)
    IN  <<Num(0, 0)>> \o
        [k \in 1..(n * n) |->
            LET i == (k - 1) \div n
                j == (k - 1) % n
            IN  Num(-(1 - order[i][j]), score[i] - score[j])]

\* torch.logsumexp of a list of terms, as the multiset of the exponents
\* whose exponential is not 0: the value is log(sum of exp(e) * count[e])
LogSumExp(terms) ==
    LET live == {k \in 1..Len(terms) : terms[k].offset = 0}
        exps == {terms[k].x : k \in live}
    IN  [e \in exps |-> Cardinality({k \in live : terms[k].x = e})]

\* line 46-47: cosine similarity of the two rows of pair i, times tau
CosineScore(y_pred, tau) ==
    [i \in 0..((Len(y_pred) \div 2) - 1) |->
        Dot(Normalize(y_pred[2 * i + 1]), Normalize(y_pred[2 * i + 2])) * tau]

\* cosine_loss(y_true, y_pred, tau): the list handed to logsumexp and its value
cosine_loss(y_true, y_pred, tau) ==
    LET terms == RankingTerms(OrderMatrix(Gold(y_true)), CosineScore(y_pred, tau))
    IN  [terms |-> terms, value |-> LogSumExp(terms)]

\* lines 59-79: |re + im| of the normalised complex quotient of the two rows
\* of pair i, times tau; (a, b) and (c, d) are the halves of the two rows
AngleScore(y_pred, tau) ==
    [i \in 0..((Len(y_pred) \div 2) - 1) |->
        LET a == y_pred[2 * i + 1][1]
            b == y_pred[2 * i + 1][2]
            c == y_pred[2 * i + 2][1]
            d == y_pred[2 * i + 2][2]
            dz == Norm(<<a, b>>)
            dw == Norm(<<c, d>>)
        IN  Abs(((a * c + b * d) + (b * c - a * d)) \div (dz * dw)) * tau]

\* angle_loss(y_true, y_pred, tau)
angle_loss(y_true, y_pred, tau) ==
    LET terms == RankingTerms(OrderMatrix(Gold(y_true)), AngleScore(y_pred, tau))
    IN  [terms |-> terms, value |-> LogSumExp(terms)]

\* make_target_matrix(y) of in_batch_negative_loss, y the integer column
\* y_true.int() as a function of the row (from 0)
make_target_matrix(y) ==
    LET n == Cardinality(DOMAIN y)
        idxs_1 == [j \in 0..(n - 1) |-> j * y[j] + (IF y[j] = 0 THEN -2 ELSE 0)]
        idxs_2 == [i \in 0..(n - 1) |->
                      (i + 1 - (i % 2) * 2) * y[i] + (IF y[i] = 0 THEN -1 ELSE 0)]
    IN  [i \in 0..(n - 1) |-> [j \in 0..(n - 1) |->
            IF idxs_1[j] = idxs_2[i] THEN 1 ELSE 0]]

\* in_batch_negative_loss(y_true, y_pred, tau, similar_matrix): the target
\* matrix, the logits and the mean categorical cross-entropy of the two
\* (negative_weights keeps its default 0, so neg_mask is not added)
in_batch_negative_loss(y_true, y_pred, tau, similar_matrix) ==
    LET n == Len(y_pred)
        y == [i \in 0..(n - 1) |-> y_true[i + 1][1]]
        neg_mask == make_target_matrix([i \in 0..(n - 1) |-> IF y[i] = 0 THEN 1 ELSE 0])
        target0 == make_target_matrix(y)
        target == IF similar_matrix.given
                  THEN [i \in 0..(n - 1) |-> [j \in 0..(n - 1) |->
                           target0[i][j] + similar_matrix.m[i][j]]]
                  ELSE target0
        similarities == [i \in 0..(n - 1) |-> [j \in 0..(n - 1) |->
                            Num(IF i = j THEN -tau ELSE 0,
                                Dot(Normalize(y_pred[i + 1]), Normalize(y_pred[j + 1])) * tau)]]
    IN  [target0 |-> target0, neg_mask |-> neg_mask, target |-> target,
         value |-> [fn |-> "mean categorical_crossentropy",
                    y_true |-> target, y_pred |-> similarities]]

\* a test that also lets a weight of 0 through
TermEnabledNonNegative(w) == w >= 0

\* the tests `self.w1 > 0`, `self.w2 > 0`, `self.w3 > 0`, lines 165-169
TermEnabled(w) == w > 0

\* AngleLoss.__call__: the terms it invokes, in order, and the sum, kept as
\* the list of (weight, term value) summands added to `loss = 0.`
AngleLoss(w, y_true, y_pred, similar_matrix) ==
    LET cos == IF TermEnabled(w.w1)
               THEN <<[name |-> "cosine_loss", w |-> w.w1,
                       term |-> cosine_loss(y_true, y_pred, cosine_tau)]>>
               ELSE <<>>
        ibn == IF TermEnabled(w.w2)
               THEN <<[name |-> "in_batch_negative_loss", w |-> w.w2,
                       term |-> in_batch_negative_loss(y_true, y_pred, ibn_tau, similar_matrix)]>>
               ELSE <<>>
        ang == IF TermEnabled(w.w3)
               THEN <<[name |-> "angle_loss", w |-> w.w3,
                       term |-> angle_loss(y_true, y_pred, angle_tau)]>>
               ELSE <<>>
        calls == cos \o ibn \o ang
    IN  [status |-> "done",
         invoked |-> [k \in 1..Len(calls) |-> calls[k].name],
         loss |-> [k \in 1..Len(calls) |-> [w |-> calls[k].w, value |-> calls[k].term.value]],
         calls |-> calls]

NoLossFct == [w1 |-> 1, w2 |-> 1, w3 |-> 1]
NoLossIn == [y_true |-> <<>>, y_pred |-> <<>>, similar_matrix |-> [given |-> FALSE, m |-> <<>>]]
NoLossOut == [status |-> "idle", invoked |-> <<>>, loss |-> <<>>, calls |-> <<>>]

\* the similarity mask the collator builds for rows whose texts, and so
\* whose embeddings, are those of y_pred: 1 between different rows that are equal
MaskOf(y_pred) ==
    [i \in 0..(Len(y_pred) - 1) |-> [j \in 0..(Len(y_pred) - 1) |->
        IF i # j /\ y_pred[i + 1] = y_pred[j + 1] THEN 1 ELSE 0]]

\* the batches of a loss call: labels of shape (2N, 1), both rows of a pair
\* with the label of their record, embeddings of shape (2N, 2), and the
\* similarity mask (absent, or the collator's)
LossInputs ==
    UNION {
        {[y_true |-> [r \in 1..(2 * n) |-> <<lab[(r + 1) \div 2]>>],
          y_pred |-> emb,
          similar_matrix |-> [given |-> g, m |-> IF g THEN MaskOf(emb) ELSE <<>>]] :
            lab \in [1..n -> LossLabels], emb \in [1..(2 * n) -> EmbeddingSamples],
            g \in BOOLEAN}
        : n \in 1..MaxPairs}

\* loss_fct(labels, outputs, similar_matrix=similar_matrix)
LossCall ==
    /\ loss_out.status = "idle"
    /\ \E in \in LossInputs :
          /\ loss_in' = in
          /\ loss_out' = AngleLoss(loss_fct, in.y_true, in.y_pred, in.similar_matrix)
    /\ UNCHANGED <<loss_fct, tok_vars, coll_vars, step_vars>>

\* the training loop has taken the loss
ReleaseLoss ==
    /\ loss_out.status # "idle"
    /\ loss_in' = NoLossIn
    /\ loss_out' = NoLossOut
    /\ UNCHANGED <<loss_fct, tok_vars, coll_vars, step_vars>>

LossNext == LossCall \/ ReleaseLoss

----------------------------------------------------------------------------
(* Pooler, AngleTrainer.compute_loss, AnglE.evaluate, AnglE.encode *)

\* a Python dict with the keys b.keys of a collated batch
BatchDict(b) ==
    [k \in b.keys |->
        CASE k = "input_ids" -> b.input_ids
          [] k = "attention_mask" -> b.attention_mask
          [] k = "token_type_ids" -> b.token_type_ids
          [] k = "labels" -> b.labels
          [] k = "similar_matrix" -> b.similar_matrix]

\* a lookup that leaves the key in the dict (dict.get instead of dict.pop)
PopKeyKeeps(d, k) == d

\* the dict after d.pop(k) or d.pop(k, None)
PopKey(d, k) == [x \in DOMAIN d \ {k} |-> d[x]]

\* seq[k] with Python's meaning of a negative k
PyGet(seq, k) == IF k >= 0 THEN seq[k + 1] ELSE seq[Len(seq) + k + 1]

\* the last hidden layer of a stand-in backbone: the state at a position
\* (from 1) is fixed by the token there and the position, and tells both
HiddenState(token, p) == 4 * token + p

Backbone(input_ids) ==
    [r \in 1..Len(input_ids) |->
        [p \in 1..Len(input_ids[r]) |-> HiddenState(input_ids[r][p], p)]]

\* an embedding component num / den
Frac(num, den) == [num |-> num, den |-> den]

\* the index of the first pad token itself, 0 when the row has none
SequenceLengthAtPad(row) ==
    IF pad_token_id \in Range(row) THEN PyIndex(row, pad_token_id) ELSE 0

\* torch.eq(row, pad_token_id).long().argmax(-1) - 1, line 351: argmax is
\* the first position of a pad token, 0 when the row has none
SequenceLength(row) ==
    (IF pad_token_id \in Range(row) THEN PyIndex(row, pad_token_id) ELSE 0) - 1

\* an else branch that falls back to the first token
PoolRowNoElse(h, strategy) ==
    CASE strategy = "cls_avg" -> [exc |-> "none", value |-> Frac(h[1] * Len(h) + SumSeq(h), 2 * Len(h))]
      [] strategy = "last" -> [exc |-> "none", value |-> Frac(h[Len(h)], 1)]
      [] strategy = "avg" -> [exc |-> "none", value |-> Frac(SumSeq(h), Len(h))]
      [] strategy = "max" -> [exc |-> "none", value |-> Frac(MaxOver(Range(h)), 1)]
      [] OTHER -> [exc |-> "none", value |-> Frac(h[1], 1)]

\* lines 360-371 for one row h of last_hidden_state
PoolRow(h, strategy) ==
    CASE strategy = "cls" -> [exc |-> "none", value |-> Frac(h[1], 1)]
      [] strategy = "cls_avg" -> [exc |-> "none", value |-> Frac(h[1] * Len(h) + SumSeq(h), 2 * Len(h))]
      [] strategy = "last" -> [exc |-> "none", value |-> Frac(h[Len(h)], 1)]
      [] strategy = "avg" -> [exc |-> "none", value |-> Frac(SumSeq(h), Len(h))]
      [] strategy = "max" -> [exc |-> "none", value |-> Frac(MaxOver(Range(h)), 1)]
      [] OTHER -> [exc |-> "NotImplementedError", value |-> Frac(0, 1)]

\* Pooler.__call__(inputs): the keyword set the backbone is called with,
\* the exception raised, the embeddings returned
PoolerCall(cfg, d) ==
    LET hidden_states == Backbone(d["input_ids"])
        batch_size == Len(hidden_states)
        kwargs == DOMAIN d
    IN  IF cfg.is_llm
        THEN IF ~cfg.pad_defined /\ batch_size # 1
             THEN [status |-> "raised", exc |-> "ValueError", kwargs |-> kwargs, outputs |-> <<>>]
             ELSE [status |-> "returned", exc |-> "none", kwargs |-> kwargs,
                   outputs |-> [r \in 1..batch_size |->
                       Frac(PyGet(hidden_states[r],
                                  IF cfg.pad_defined
                                  THEN SequenceLength(d["input_ids"][r]) ELSE -1), 1)]]
        ELSE LET rows == [r \in 1..batch_size |-> PoolRow(hidden_states[r], cfg.pooling_strategy)]
             IN  IF \E r \in 1..batch_size : rows[r].exc # "none"
                 THEN [status |-> "raised", exc |-> rows[1].exc, kwargs |-> kwargs,
                       outputs |-> <<>>]
                 ELSE [status |-> "returned", exc |-> "none", kwargs |-> kwargs,
                       outputs |-> [r \in 1..batch_size |-> rows[r].value]]

NoPooler == [is_llm |-> FALSE, pooling_strategy |-> "cls", pad_defined |-> TRUE]
NoOutputs == [status |-> "idle", exc |-> "none", kwargs |-> {}, outputs |-> <<>>]
NoLocals == [labels |-> <<>>, similar_matrix |-> [given |-> FALSE, m |-> <<>>]]
NoLossCall == [called |-> FALSE, y_true |-> <<>>, y_pred |-> <<>>,
               similar_matrix |-> [given |-> FALSE, m |-> <<>>]]

\* the records of a step: TokenizedPairs the collator accepts
StepFeatures(has_tt) ==
    {Feature(a, b, 0, label, has_tt) :
        a \in RowSamples, b \in RowSamples \ {<<>>}, label \in Labels}

\* the training loop collates the next batch and calls compute_loss with it
NewBatch ==
    /\ pc = "idle"
    /\ \E n \in 1..MaxStepRecords, has_tt \in BOOLEAN :
         \E fs \in [1..n -> StepFeatures(has_tt)] :
            /\ features' = fs
            /\ batch' = Collator(fs, compute_similar_matrix)
            /\ inputs' = BatchDict(Collator(fs, compute_similar_matrix))
    /\ pc' = "compute_loss"
    /\ UNCHANGED <<pooler, locals, steps, backbone_kwargs, outputs, loss_call,
                   compute_similar_matrix, tok_vars, loss_vars>>

\* compute_loss, lines 387-388
PopLabels ==
    /\ pc = "compute_loss"
    /\ IF "labels" \in DOMAIN inputs
       THEN /\ locals' = [labels |-> inputs["labels"],
                          similar_matrix |->
                              IF "similar_matrix" \in DOMAIN inputs
                              THEN [given |-> TRUE, m |-> inputs["similar_matrix"]]
                              ELSE [given |-> FALSE, m |-> <<>>]]
            /\ inputs' = PopKey(PopKey(inputs, "labels"), "similar_matrix")
            /\ steps' = steps \o <<"pop labels", "pop similar_matrix">>
            /\ pc' = "popped"
       ELSE /\ pc' = "raised"
            /\ UNCHANGED <<locals, inputs, steps>>
    /\ UNCHANGED <<pooler, backbone_kwargs, outputs, loss_call, coll_vars, tok_vars, loss_vars>>

\* compute_loss, line 389
Forward ==
    /\ pc = "popped"
    /\ outputs' = PoolerCall(pooler, inputs)
    /\ backbone_kwargs' = Append(backbone_kwargs, PoolerCall(pooler, inputs).kwargs)
    /\ steps' = Append(steps, "pooler")
    /\ pc' = IF PoolerCall(pooler, inputs).exc = "none" THEN "pooled" ELSE "raised"
    /\ UNCHANGED <<pooler, inputs, locals, loss_call, coll_vars, tok_vars, loss_vars>>

\* compute_loss, lines 390-391
CallLoss ==
    /\ pc = "pooled"
    /\ loss_call' = [called |-> TRUE, y_true |-> locals.labels, y_pred |-> outputs.outputs,
                     similar_matrix |-> locals.similar_matrix]
    /\ steps' = Append(steps, "loss_fct")
    /\ pc' = "done"
    /\ UNCHANGED <<pooler, inputs, locals, backbone_kwargs, outputs, coll_vars, tok_vars,
                   loss_vars>>

\* AnglE.evaluate, lines 684-699, for one chunk of the data
Evaluate ==
    /\ pc = "idle"
    /\ \E n \in 1..MaxStepRecords, has_tt \in BOOLEAN :
         \E fs \in [1..n -> StepFeatures(has_tt)] :
            LET X == Collator(fs, FALSE)
                X2 == PopKey(PopKey(BatchDict(X), "similar_matrix"), "labels")
            IN  /\ features' = fs
                /\ batch' = X
                /\ inputs' = X2
                /\ outputs' = PoolerCall(pooler, X2)
                /\ backbone_kwargs' = Append(backbone_kwargs, PoolerCall(pooler, X2).kwargs)
                /\ pc' = IF PoolerCall(pooler, X2).exc = "none" THEN "evaluated" ELSE "raised"
    /\ steps' = steps \o <<"pop similar_matrix", "pop labels", "pooler">>
    /\ UNCHANGED <<pooler, locals, loss_call, compute_similar_matrix, tok_vars, loss_vars>>

\* AnglE.encode, lines 712-721: the sentences are tokenized with
\* padding='longest' and pooled
Encode ==
    /\ pc = "idle"
    /\ \E n \in 1..MaxSentences :
         \E rows \in [1..n -> RowSamples \ {<<>>}] :
            LET tk == [k \in {"input_ids", "attention_mask"} |->
                          IF k = "input_ids" THEN PadLongest(rows)
                          ELSE PadLongest([r \in 1..n |-> Repeat(1, Len(rows[r]))])]
            IN  /\ inputs' = tk
                /\ outputs' = PoolerCall(pooler, tk)
                /\ backbone_kwargs' = Append(backbone_kwargs, PoolerCall(pooler, tk).kwargs)
                /\ pc' = IF PoolerCall(pooler, tk).exc = "none" THEN "encoded" ELSE "raised"
    /\ steps' = Append(steps, "pooler")
    /\ UNCHANGED <<pooler, locals, loss_call, coll_vars, tok_vars, loss_vars>>

\* the call is over (returned or raised); the loop goes on
EndCall ==
    /\ pc \in {"done", "raised", "evaluated", "encoded"}
    /\ pc' = "idle"
    /\ inputs' = <<>>
    /\ locals' = NoLocals
    /\ steps' = <<>>
    /\ backbone_kwargs' = <<>>
    /\ outputs' = NoOutputs
    /\ loss_call' = NoLossCall
    /\ features' = <<>>
    /\ batch' = NoBatch
    /\ UNCHANGED <<pooler, compute_similar_matrix, tok_vars, loss_vars>>

StepNext == NewBatch \/ PopLabels \/ Forward \/ CallLoss \/ Evaluate \/ Encode \/ EndCall

----------------------------------------------------------------------------
(* Specifications, one per component; the other components stay as constructed *)

\* AngleDataTokenizer.__init__: max_length and the tokenization of the
\* template with its placeholders removed (none without a template)
TokInit ==
    /\ max_length \in 1..MaxLen
    /\ prompt_template_tok \in
           {[configured |-> FALSE, input_ids |-> <<>>]} \cup
           [configured : {TRUE}, input_ids : SeqsUpTo(Vocab, max_length)]
    /\ data = NoData
    /\ tok = NoTok
    /\ tok_obs = NoObs
    /\ compute_similar_matrix = TRUE
    /\ features = <<>>
    /\ batch = NoBatch
    /\ loss_fct = NoLossFct
    /\ loss_in = NoLossIn
    /\ loss_out = NoLossOut
    /\ pooler = NoPooler
    /\ inputs = <<>>
    /\ locals = NoLocals
    /\ pc = "idle"
    /\ steps = <<>>
    /\ backbone_kwargs = <<>>
    /\ outputs = NoOutputs
    /\ loss_call = NoLossCall

SpecTok == TokInit /\ [][TokNext]_vars

\* the dataclass fields of AngleDataCollator (padding stays 'longest')
CollInit ==
    /\ compute_similar_matrix \in BOOLEAN
    /\ features = <<>>
    /\ batch = NoBatch
    /\ max_length = 1
    /\ prompt_template_tok = [configured |-> FALSE, input_ids |-> <<>>]
    /\ data = NoData
    /\ tok = NoTok
    /\ tok_obs = NoObs
    /\ loss_fct = NoLossFct
    /\ loss_in = NoLossIn
    /\ loss_out = NoLossOut
    /\ pooler = NoPooler
    /\ inputs = <<>>
    /\ locals = NoLocals
    /\ pc = "idle"
    /\ steps = <<>>
    /\ backbone_kwargs = <<>>
    /\ outputs = NoOutputs
    /\ loss_call = NoLossCall

SpecColl == CollInit /\ [][CollNext]_vars

\* AngleLoss.__init__: the three weights
LossInit ==
    /\ loss_fct \in [w1 : WeightSamples, w2 : WeightSamples, w3 : WeightSamples]
    /\ loss_in = NoLossIn
    /\ loss_out = NoLossOut
    /\ max_length = 1
    /\ prompt_template_tok = [configured |-> FALSE, input_ids |-> <<>>]
    /\ data = NoData
    /\ tok = NoTok
    /\ tok_obs = NoObs
    /\ compute_similar_matrix = TRUE
    /\ features = <<>>
    /\ batch = NoBatch
    /\ pooler = NoPooler
    /\ inputs = <<>>
    /\ locals = NoLocals
    /\ pc = "idle"
    /\ steps = <<>>
    /\ backbone_kwargs = <<>>
    /\ outputs = NoOutputs
    /\ loss_call = NoLossCall

SpecLoss == LossInit /\ [][LossNext]_vars

\* Pooler.__init__ (AnglE.__init__, line 535) and the collator of fit
StepInit ==
    /\ pooler \in [is_llm : BOOLEAN, pooling_strategy : StrategySamples, pad_defined : BOOLEAN]
    /\ compute_similar_matrix \in BOOLEAN
    /\ inputs = <<>>
    /\ locals = NoLocals
    /\ pc = "idle"
    /\ steps = <<>>
    /\ backbone_kwargs = <<>>
    /\ outputs = NoOutputs
    /\ loss_call = NoLossCall
    /\ features = <<>>
    /\ batch = NoBatch
    /\ max_length = 1
    /\ prompt_template_tok = [configured |-> FALSE, input_ids |-> <<>>]
    /\ data = NoData
    /\ tok = NoTok
    /\ tok_obs = NoObs
    /\ loss_fct = NoLossFct
    /\ loss_in = NoLossIn
    /\ loss_out = NoLossOut

SpecStep == StepInit /\ [][StepNext]_vars

----------------------------------------------------------------------------
(* Claims about AngleDataTokenizer, checked under SpecTok *)

Returned == data.state = "done" /\ tok.status = "returned"

\* the final token of a tokenized text differs from the template's final token
Mismatch(raw) ==
    /\ prompt_template_tok.configured
    /\ raw # <<>>
    /\ prompt_template_tok.input_ids # <<>>
    /\ Last(raw) # Last(prompt_template_tok.input_ids)

\* C3: every TokenizedPair that __call__ returns has input_ids,
\* attention_mask and seperate_ids of one length, also after a repair.
C3_EqualLengths ==
    Returned =>
        /\ Len(tok.input_ids) = Len(tok.attention_mask)
        /\ Len(tok.attention_mask) = Len(tok.seperate_ids)

\* C6: with a template configured, a call in which the final token of a
\* tokenized text differs from the template's final token does not raise:
\* the repair is attempted on that text and a TokenizedPair is returned,
\* whether the repair succeeded or not.
C6_MismatchNeverRaises ==
    (data.state = "done" /\ (Mismatch(tok_obs.raw1) \/ Mismatch(tok_obs.raw2))) =>
        /\ tok.status = "returned"
        /\ Mismatch(tok_obs.raw1) => tok_obs.bad1
        /\ Mismatch(tok_obs.raw2) => tok_obs.bad2

\* a call that returned after one failed and one successful repair
C6_Witness ==
    /\ Returned
    /\ Mismatch(tok_obs.raw1) /\ tok_obs.bad1 /\ ~tok_obs.fixed1
    /\ Mismatch(tok_obs.raw2) /\ tok_obs.bad2 /\ tok_obs.fixed2

\* C8: with a template configured each text is cut to
\* max_length - template length - extras length tokens before it is put
\* into the template, and the token sequence of each wrapped text in the
\* returned TokenizedPair has at most max_length tokens.
C8_FitsMaxLength ==
    (Returned /\ prompt_template_tok.configured) =>
        /\ tok_obs.budget = max_length - Len(prompt_template_tok.input_ids) - data.extras
        /\ tok_obs.pre1 <= tok_obs.budget /\ tok_obs.pre2 <= tok_obs.budget
        /\ data.text1 = PromptText(tok_obs.pre1) /\ data.text2 = PromptText(tok_obs.pre2)
        /\ Len(tok_obs.out1) <= max_length
        /\ Len(tok_obs.out2) <= max_length

----------------------------------------------------------------------------
(* Claims about AngleDataCollator, checked under SpecColl *)

Collated == batch.status = "done"

\* the tokens of a feature whose segment id is s, in their order
RECURSIVE SegTokens(_, _, _)
SegTokens(input_ids, seperate_ids, s) ==
    IF input_ids = <<>> THEN <<>>
    ELSE (IF Head(seperate_ids) = s THEN <<Head(input_ids)>> ELSE <<>>)
         \o SegTokens(Tail(input_ids), Tail(seperate_ids), s)

\* a record the collator accepts: parallel arrays of one length, and a
\* segment id equal to 1
ValidFeature(f) ==
    /\ Len(f.input_ids) = Len(f.attention_mask)
    /\ Len(f.input_ids) = Len(f.seperate_ids)
    /\ f.has_token_type_ids => Len(f.token_type_ids) = Len(f.input_ids)
    /\ 1 \in Range(f.seperate_ids)

\* row p (from 0) of the padded batch holds exactly the tokens ids: they
\* come first and only padding follows
RowHolds(p, ids) ==
    /\ batch.new_features[p + 1].input_ids = ids
    /\ SubSeq(batch.input_ids[p + 1], 1, Len(ids)) = ids
    /\ \A k \in (Len(ids) + 1)..Len(batch.input_ids[p + 1]) :
          batch.input_ids[p + 1][k] = pad_token_id

\* C1: for N valid records the collator emits exactly 2N rows; row 2i holds
\* exactly the tokens of record i with segment id 0 and row 2i+1 those with
\* segment id 1, in record order.
C1_RowOrder ==
    (features # <<>> /\ \A k \in 1..Len(features) : ValidFeature(features[k])) =>
        /\ Collated
        /\ Len(batch.new_features) = 2 * Len(features)
        /\ Len(batch.input_ids) = 2 * Len(features)
        /\ \A i \in 0..(Len(features) - 1) :
              /\ RowHolds(2 * i, SegTokens(features[i + 1].input_ids,
                                           features[i + 1].seperate_ids, 0))
              /\ RowHolds(2 * i + 1, SegTokens(features[i + 1].input_ids,
                                               features[i + 1].seperate_ids, 1))

\* two records with four pairwise different rows were collated
C1_Witness ==
    /\ Collated
    /\ Len(features) = 2
    /\ batch.new_features[1].input_ids = <<1, 2>>
    /\ batch.new_features[2].input_ids = <<1>>
    /\ batch.new_features[3].input_ids = <<>>
    /\ batch.new_features[4].input_ids = <<1, 2>>

\* C2: in every batch, whatever compute_similar_matrix is, the similarity
\* mask is symmetric and has a zero diagonal.
C2_SymmetricZeroDiagonal ==
    Collated =>
        LET n == Len(batch.new_features)
            m == batch.similar_matrix
        IN  /\ DOMAIN m = 0..(n - 1)
            /\ \A i \in 0..(n - 1) : DOMAIN m[i] = 0..(n - 1)
            /\ \A i, j \in 0..(n - 1) : m[i][j] = m[j][i]
            /\ \A i \in 0..(n - 1) : m[i][i] = 0

\* a mask with entries set between rows of different records
C2_Witness ==
    /\ Collated
    /\ compute_similar_matrix
    /\ Len(features) = 2
    /\ batch.similar_matrix[0][3] = 1
    /\ batch.similar_matrix[3][0] = 1
    /\ batch.similar_matrix[0][1] = 0

\* C10: with compute_similar_matrix the mask entry [i][j] is 1 exactly when
\* i # j and rows i and j hold the same token-id sequence, whichever records
\* they come from; without it every entry is 0.
C10_MaskMarksEqualRows ==
    Collated =>
        LET n == Len(batch.new_features)
        IN  \A i, j \in 0..(n - 1) :
               batch.similar_matrix[i][j] =
                  IF /\ compute_similar_matrix
                     /\ i # j
                     /\ batch.new_features[i + 1].input_ids = batch.new_features[j + 1].input_ids
                  THEN 1 ELSE 0

\* a mask with an entry set inside one record and rows of equal length that
\* differ in a token
C10_Witness ==
    /\ Collated
    /\ compute_similar_matrix
    /\ Len(features) = 2
    /\ batch.similar_matrix[0][1] = 1
    /\ batch.new_features[1].input_ids = <<1>>
    /\ batch.new_features[3].input_ids = <<2>>
    /\ batch.new_features[4].input_ids = <<1>>
    /\ batch.similar_matrix[2][3] = 0
    /\ batch.similar_matrix[1][3] = 1

----------------------------------------------------------------------------
(* Claims about the loss, checked under SpecLoss *)

LossDone == loss_out.status = "done"

WeightOf(name) ==
    CASE name = "cosine_loss" -> loss_fct.w1
      [] name = "in_batch_negative_loss" -> loss_fct.w2
      [] name = "angle_loss" -> loss_fct.w3

\* C4: AngleLoss.__call__ invokes a term only when its weight is not 0, and
\* with w1 = 1, w2 = 0, w3 = 0 the result is the value of cosine_loss alone.
C4_TermsToggledByWeight ==
    LossDone =>
        /\ \A k \in 1..Len(loss_out.invoked) : WeightOf(loss_out.invoked[k]) # 0
        /\ (loss_fct = [w1 |-> 1, w2 |-> 0, w3 |-> 0]) =>
              /\ loss_out.invoked = <<"cosine_loss">>
              /\ loss_out.loss =
                    <<[w |-> 1,
                       value |-> cosine_loss(loss_in.y_true, loss_in.y_pred, cosine_tau).value]>>

\* a call with weights 1, 0, 0 on two pairs whose cosine term has a live
\* exponent besides the explicit zero
C4_Witness ==
    /\ LossDone
    /\ loss_fct = [w1 |-> 1, w2 |-> 0, w3 |-> 0]
    /\ Len(loss_in.y_pred) = 4
    /\ loss_in.similar_matrix.given
    /\ loss_out.invoked = <<"cosine_loss">>
    /\ DOMAIN loss_out.loss[1].value = {0, 20}

\* the list cosine_loss handed to logsumexp in the last call (w1 > 0)
CosineTerms == loss_out.calls[1].term.terms

\* C9: the log-sum-exp of cosine_loss ranges over one explicit zero and one
\* term per ordered pair (i, j) of pairs, unmasked exactly when gold[i] <
\* gold[j] and masked by -1e12 otherwise; for 2 pairs with gold scores
\* [0, 1] and the same embeddings in both pairs the single unmasked term has
\* gap 0 and the loss is log(exp(0) + exp(0)) = log(2).
C9_CosineLogSumExp ==
    (LossDone /\ loss_fct.w1 > 0) =>
        LET n == Len(loss_in.y_pred) \div 2
            gold == [i \in 0..(n - 1) |-> loss_in.y_true[2 * i + 1][1]]
            sim == CosineScore(loss_in.y_pred, cosine_tau)
            live == {k \in 2..Len(CosineTerms) : CosineTerms[k].offset = 0}
        IN  /\ loss_out.invoked[1] = "cosine_loss"
            /\ Len(CosineTerms) = 1 + n * n
            /\ CosineTerms[1] = [offset |-> 0, x |-> 0]
            /\ \A i, j \in 0..(n - 1) :
                  LET t == CosineTerms[2 + i * n + j]
                  IN  /\ t.x = sim[i] - sim[j]
                      /\ t.offset = IF gold[i] < gold[j] THEN 0 ELSE -1
            /\ Cardinality(live) =
                  Cardinality({ij \in (0..(n - 1)) \X (0..(n - 1)) : gold[ij[1]] < gold[ij[2]]})
            /\ (/\ n = 2 /\ gold[0] = 0 /\ gold[1] = 1
                /\ loss_in.y_pred[1] = loss_in.y_pred[3]
                /\ loss_in.y_pred[2] = loss_in.y_pred[4]) =>
                  /\ Cardinality(live) = 1
                  /\ \A k \in live : CosineTerms[k].x = 0
                  /\ loss_out.calls[1].term.value = (0 :> 2)

\* 2 pairs with gold scores [0, 1] and the same two embeddings in both pairs
C9_Witness ==
    /\ LossDone
    /\ loss_fct.w1 = 1
    /\ Len(loss_in.y_pred) = 4
    /\ loss_in.y_true = <<<<0>>, <<0>>, <<1>>, <<1>>>>
    /\ loss_in.y_pred = <<<<1, 0>>, <<-3, 0>>, <<1, 0>>, <<-3, 0>>>>
    /\ loss_out.calls[1].term.value = (0 :> 2)

----------------------------------------------------------------------------
(* Claims about compute_loss and the Pooler, checked under SpecStep *)

\* the statements of compute_loss in the order of lines 387-390
ComputeLossOrder == <<"pop labels", "pop similar_matrix", "pooler", "loss_fct">>

\* the current call is compute_loss (not evaluate, not encode)
InComputeLoss == steps # <<>> /\ steps[1] = "pop labels"

\* C5: in every training step labels and similar_matrix leave the batch
\* before the pooler forwards the remaining fields to the backbone, so no
\* backbone call of the step receives either key; the loss is called after
\* the pooler, with the removed labels, the pooled embeddings and the
\* removed similar_matrix
C5_StrippedThenPooledThenLoss ==
    /\ InComputeLoss =>
         /\ steps = SubSeq(ComputeLossOrder, 1, Len(steps))
         /\ \A k \in 1..Len(backbone_kwargs) :
              /\ "labels" \notin backbone_kwargs[k]
              /\ "similar_matrix" \notin backbone_kwargs[k]
              /\ backbone_kwargs[k] = batch.keys \ {"labels", "similar_matrix"}
         /\ loss_call.called => steps = ComputeLossOrder
         /\ locals.labels = batch.labels
         /\ locals.similar_matrix = [given |-> TRUE, m |-> batch.similar_matrix]
    /\ pc = "done" =>
         /\ steps = ComputeLossOrder
         /\ Len(backbone_kwargs) = 1
         /\ loss_call = [called |-> TRUE, y_true |-> batch.labels,
                         y_pred |-> outputs.outputs,
                         similar_matrix |-> [given |-> TRUE, m |-> batch.similar_matrix]]

\* a training step ran to the loss, on a batch that had token_type_ids
C5_Witness ==
    /\ pc = "done"
    /\ loss_call.called
    /\ loss_call.y_true = <<<<1>>, <<1>>>>
    /\ backbone_kwargs = <<{"input_ids", "attention_mask", "token_type_ids"}>>

PoolingStrategies == {"cls", "cls_avg", "last", "avg", "max"}

----------------------------------------------------------------------------
(* Claims about in_batch_negative_loss, checked under SpecLoss *)

\* the in_batch_negative_loss terms of the finished call (none or one)
IbnTerms ==
    {loss_out.calls[k].term :
        k \in {x \in 1..Len(loss_out.calls) :
                  loss_out.calls[x].name = "in_batch_negative_loss"}}

\* the row paired with row i: i + 1 for even i, i - 1 for odd i
Partner(i) == IF i % 2 = 0 THEN i + 1 ELSE i - 1

\* the label-presence flag of a label: 0 for label 0, 1 otherwise
PresenceFlag(label) == IF label = 0 THEN 0 ELSE 1

\* C11: the target matrix of in_batch_negative_loss, before the similarity
\* mask is added, has target[i][j] = 1 exactly when j is the partner of row
\* i and rows i and j have the same label-presence flag, and 0 elsewhere.
C11_TargetMarksPartners ==
    LossDone =>
        \A t \in IbnTerms :
            LET n == Len(loss_in.y_true)
            IN  \A i, j \in 0..(n - 1) :
                    t.target0[i][j] =
                        IF /\ j = Partner(i)
                           /\ PresenceFlag(loss_in.y_true[i + 1][1]) =
                              PresenceFlag(loss_in.y_true[j + 1][1])
                        THEN 1 ELSE 0

----------------------------------------------------------------------------
(* Claims about fix_bad_data and the repair, checked under SpecTok *)

\* a suffix of s with k tokens
Suffix(s, k) == SubSeq(s, Len(s) - k + 1, Len(s))

\* the length of the longest tail of token_ids made of tokens of the template
TailLen(token_ids, prompt_ids) ==
    MaxOver({k \in 0..Len(token_ids) :
                \A p \in (Len(token_ids) - k + 1)..Len(token_ids) :
                    token_ids[p] \in Range(prompt_ids)})

\* out has the length of raw, every token of raw before its longest tail of
\* template tokens is where it was, and (when there is such a tail) out
\* ends with a suffix of the template
RepairShape(raw, out, prompt_ids) ==
    /\ Len(out) = Len(raw)
    /\ \A p \in 1..(Len(raw) - TailLen(raw, prompt_ids)) : out[p] = raw[p]
    /\ TailLen(raw, prompt_ids) > 0 =>
          \E k \in 1..Min(Len(raw), Len(prompt_ids)) : Suffix(out, k) = Suffix(prompt_ids, k)

\* C12: whatever the produced tokens and the template tokens, the output
\* of fix_bad_data is as long as the produced sequence, keeps every token
\* before the longest tail of template tokens and ends with the canonical
\* template suffix put in place of that tail.
C12_RepairKeepsLengthAndPrefix ==
    data.state = "done" =>
        /\ tok_obs.bad1 =>
              RepairShape(tok_obs.raw1, tok_obs.out1, prompt_template_tok.input_ids)
        /\ tok_obs.bad2 =>
              RepairShape(tok_obs.raw2, tok_obs.out2, prompt_template_tok.input_ids)

\* the repair of a text was attempted and an assertion of lines 231-232
\* (241-242) failed
RepairFailed(bad, fixed) == bad /\ ~fixed

\* C13: when the repair of a mismatched text fails, the TokenizedPair that
\* __call__ returns holds the token sequence the tokenizer produced for that
\* text, not the output of the failed repair.
C13_FailedRepairKeepsOriginal ==
    Returned =>
        /\ RepairFailed(tok_obs.bad1, tok_obs.fixed1) => tok_obs.out1 = tok_obs.raw1
        /\ RepairFailed(tok_obs.bad2, tok_obs.fixed2) => tok_obs.out2 = tok_obs.raw2
        /\ (RepairFailed(tok_obs.bad1, tok_obs.fixed1) \/
            RepairFailed(tok_obs.bad2, tok_obs.fixed2)) =>
              tok.input_ids =
                  (IF RepairFailed(tok_obs.bad1, tok_obs.fixed1)
                   THEN tok_obs.raw1 ELSE tok_obs.out1) \o
                  (IF RepairFailed(tok_obs.bad2, tok_obs.fixed2)
                   THEN tok_obs.raw2 ELSE tok_obs.out2)

----------------------------------------------------------------------------
(* Claims about the Pooler of a causal backbone, checked under SpecStep *)

\* the position (from 1) one before the first pad token of a row; Python's
\* index -1, the last position, when the row has no pad token or starts
\* with one
LastTokenPos(row) ==
    LET pads == {p \in 1..Len(row) : row[p] = pad_token_id}
        first == IF pads = {} THEN 1 ELSE CHOOSE p \in pads : \A q \in pads : p <= q
    IN  IF first = 1 THEN Len(row) ELSE first - 1

\* C14: a Pooler with is_llm and a pad token id returns, for every row, the
\* hidden state at (index of the first pad token) - 1, the last position
\* when the row has no pad token; on a row that has a token this is the
\* position of its last non-padding token.  With no pad token id it
\* returns the hidden state at position -1 of a single-row batch and raises
\* ValueError on a batch of more rows.
C14_LlmPoolsLastToken ==
    (outputs.status # "idle" /\ pooler.is_llm) =>
        LET input_ids == inputs["input_ids"]
            n == Len(input_ids)
        IN  IF pooler.pad_defined
            THEN /\ outputs.status = "returned"
                 /\ Len(outputs.outputs) = n
                 /\ \A r \in 1..n :
                      LET row == input_ids[r]
                          q == LastTokenPos(row)
                      IN  /\ outputs.outputs[r] = Frac(HiddenState(row[q], q), 1)
                          /\ (\E p \in 1..Len(row) : row[p] # pad_token_id) =>
                                /\ row[q] # pad_token_id
                                /\ \A p \in (q + 1)..Len(row) : row[p] = pad_token_id
            ELSE IF n = 1
            THEN /\ outputs.status = "returned"
                 /\ outputs.outputs =
                       <<Frac(HiddenState(input_ids[1][Len(input_ids[1])], Len(input_ids[1])), 1)>>
            ELSE /\ outputs.status = "raised"
                 /\ outputs.exc = "ValueError"
                 /\ outputs.outputs = <<>>

\* a causal Pooler with a pad token pooled two sentences, one of them padded
C14_Witness ==
    /\ pc = "encoded"
    /\ pooler.is_llm /\ pooler.pad_defined
    /\ inputs["input_ids"] = <<<<1, 2>>, <<1, 0>>>>
    /\ outputs.outputs = <<Frac(HiddenState(2, 2), 1), Frac(HiddenState(1, 1), 1)>>

----------------------------------------------------------------------------
(* Claims about the collator's assertions, checked under SpecColl *)

\* the parallel per-token arrays of a record are not of one length
UnequalArrays(f) ==
    \/ Len(f.seperate_ids) # Len(f.input_ids)
    \/ Len(f.attention_mask) # Len(f.input_ids)
    \/ (f.has_token_type_ids /\ Len(f.token_type_ids) # Len(f.input_ids))

\* C15: a call of the collator on records of which one has parallel
\* per-token arrays of unequal length raises (AssertionError, unless an
\* earlier record already raised for having no segment id 1) and returns
\* nothing: no rows, no padded arrays, no labels, no similarity mask.
C15_UnequalArraysAreFatal ==
    (batch.status # "idle" /\ \E k \in 1..Len(features) : UnequalArrays(features[k])) =>
        /\ batch.status \in {"AssertionError", "ValueError"}
        /\ (\A k \in 1..Len(features) :
                UnequalArrays(features[k]) \/ 1 \in Range(features[k].seperate_ids))
              => batch.status = "AssertionError"
        /\ batch.new_features = <<>>
        /\ batch.input_ids = <<>>
        /\ batch.attention_mask = <<>>
        /\ batch.token_type_ids = <<>>
        /\ batch.labels = <<>>
        /\ batch.similar_matrix = <<>>
        /\ batch.keys = {}

\* a call failed on its second record, whose attention_mask is one short,
\* after the rows of the first record had been built
C15_Witness ==
    /\ batch.status = "AssertionError"
    /\ Len(features) = 2
    /\ ~UnequalArrays(features[1])
    /\ 1 \in Range(features[1].seperate_ids)
    /\ Len(features[2].attention_mask) # Len(features[2].input_ids)
    /\ Len(features[2].seperate_ids) = Len(features[2].input_ids)

----------------------------------------------------------------------------
(* Claims about the record given to AngleDataTokenizer, checked under SpecTok *)

\* C16: AngleDataTokenizer.__call__ leaves the record it is given as it
\* was: text1, text2, label and extras have after the call the values they
\* had before it, with or without a prompt template.
C16_RecordUnchanged ==
    [][data.state = "read" =>
          /\ data'.text1 = data.text1
          /\ data'.text2 = data.text2
          /\ data'.label = data.label
          /\ data'.extras = data.extras]_vars

====
